---------------------------- MODULE Spec2Model ----------------------------
(***************************************************************************)
(* A model of discopy's quantum-circuit layer: the circuit algebra of      *)
(* circuit.py (boxes, tensor, dagger, normalize) and the translation to    *)
(* and from pytket circuits of discopy/tk.py (to_tk, from_tk).             *)
(***************************************************************************)
EXTENDS Integers, Sequences, FiniteSets, TLC

\* Bounds of the model.
MaxWidth == 3      \* widest register (qubit and bit wires together)
MaxDepth == 2      \* layers of an input circuit
MaxDom == 2        \* widest domain of an input circuit
MaxQubits == 3     \* qubits of an input pytket circuit
MaxCommands == 2   \* commands of an input pytket circuit
MaxBoxes == 3      \* boxes of a diagram given to normalize
MaxBits == 2       \* longest bitstring of a Ket or a Bra
MaxPhase == 2      \* largest phase of a rotation, in steps
MaxDaggers == 3    \* daggers taken of one box
MaxBitUnits == 3   \* bits of a pytket circuit whose units are renamed

VARIABLES
    circuit,      \* to_tk: the argument, [dom, layers]
    layers,       \* to_tk: circuit.layers after lines 79-86 and 156, still to visit
    qubits,       \* to_tk: positions of the logical qubit wires
    bits,         \* to_tk: positions of the logical bit wires
    tk_circ,      \* to_tk: the TketCircuit under construction
    last,         \* to_tk: the layer visited last and the state before it
    carried,      \* to_tk: history, the unit that carries each wire's data
    request,      \* TketCircuit: the method called on tk_circ, with its arguments
    tk_circuit,   \* from_tk: the argument
    commands,     \* from_tk: tk_circuit.get_commands(), still to visit
    logical,      \* from_tk: the local `circuit`, [dom, layers]
    step,         \* from_tk: what the last iteration placed, and where
    raised,       \* from_tk: the exception that ended it, or "none"
    receiver,     \* normalize: the circuit it is called on (self)
    diagram,      \* normalize: the local `diagram`
    scalar,       \* normalize: the local `scalar`
    yielded,      \* normalize: what the generator has yielded, in order
    slices,       \* normalize: the local `slices`, its first slice apart
    _diagram,     \* normalize: the local `_diagram`
    position,     \* normalize: the local `i`
    failure,      \* normalize: the exception that ended it, or "none"
    operands,     \* tensor, dagger: the boxes given
    grouping,     \* tensor: (x @ y) @ z is "left", x @ (y @ z) is "right"
    value,        \* tensor, dagger: the result so far
    applied,      \* tensor, dagger: the number of calls made
    pc            \* control: which statement runs next

to_tk_vars == <<circuit, layers, qubits, bits, tk_circ, last, carried, request>>
from_tk_vars == <<tk_circuit, commands, logical, step, raised>>
migrate_vars == <<slices, _diagram, position, failure>>
normalize_vars == <<receiver, diagram, scalar, yielded, migrate_vars>>
algebra_vars == <<operands, grouping, value, applied>>
vars == <<to_tk_vars, from_tk_vars, normalize_vars, algebra_vars, pc>>

---------------------------------------------------------------------------
\* Python's sequence operations.

Min(a, b) == IF a < b THEN a ELSE b
Max(a, b) == IF a > b THEN a ELSE b

\* s[:n], n >= 0
Upto(s, n) == SubSeq(s, 1, Min(n, Len(s)))

\* s[n:], n >= 0
From(s, n) == SubSeq(s, Min(n, Len(s)) + 1, Len(s))

\* s[-k:], k >= 0: the last k entries, and the whole of s when k = 0
\* (the slice -0: is 0:).
Last(s, k) == IF k = 0 THEN s ELSE SubSeq(s, Max(Len(s) - k, 0) + 1, Len(s))

\* ty.count(x)
Count(ty, x) == Cardinality({i \in DOMAIN ty : ty[i] = x})

\* list(range(a, b))
Range(a, b) == [i \in 1..Max(b - a, 0) |-> a + i - 1]

\* n * (x, )
Rep(n, x) == [i \in 1..n |-> x]

---------------------------------------------------------------------------
\* The boxes of circuit.py.  A type is a sequence of wires: PRO(n) is n
\* wires 1.  A box has a name, a domain and a codomain, its _dagger flag
\* ("None" for a self-inverse box), and the bitstring, the phase or the
\* scalar that its class carries.  The dense array of a fixed gate is fixed
\* by its name and is not kept; `array` is array[0] of a scalar.

PRO(n) == Rep(n, 1)

Box(cls, name, dom, cod, bitstring, phase, array, dagger) ==
    [cls |-> cls, name |-> name, dom |-> dom, cod |-> cod,
     bitstring |-> bitstring, phase |-> phase, array |-> array,
     dagger |-> dagger]

\* Gate.__init__, circuit.py lines 349-358
Gate(name, qs, array, dagger) ==
    Box("Gate", name, PRO(qs), PRO(qs), <<>>, 0, array, dagger)

\* Ket.__init__, lines 402-409, and Ket.array for the empty bitstring
Ket(bitstring) ==
    Box("Ket", "Ket", PRO(0), PRO(Len(bitstring)), bitstring, 0, 1, "False")

\* Bra.__init__, lines 460-467
Bra(bitstring) ==
    Box("Bra", "Bra", PRO(Len(bitstring)), PRO(0), bitstring, 0, 1, "False")

\* Rz.__init__ and Rx.__init__, lines 515-521 and 563-569
Rz(phase) == Box("Rz", "Rz", PRO(1), PRO(1), <<>>, phase, 0, "False")
Rx(phase) == Box("Rx", "Rx", PRO(1), PRO(1), <<>>, phase, 0, "False")

\* lines 655-668
SWAP == Gate("SWAP", 2, 0, "None")
CX == Gate("CX", 2, 0, "None")
H == Gate("H", 1, 0, "None")
S == Gate("S", 1, 0, "False")
T == Gate("T", 1, 0, "False")
X == Gate("X", 1, 0, "None")
Y == Gate("Y", 1, 0, "False")
Z == Gate("Z", 1, 0, "None")

\* A zero-width box of value z, as sqrt builds one (lines 647-652).
Scalar(z) == Gate("scalar", 0, z, "None")

---------------------------------------------------------------------------
\* The circuit algebra of circuit.py.  A circuit that is not a single box
\* is Circuit(dom, cod, gates, offsets); a box is the circuit of itself at
\* offset 0.

\* Circuit.__init__, lines 73-78
Circuit(dom, cod, gates, offsets) ==
    [cls |-> "Circuit", dom |-> dom, cod |-> cod, boxes |-> gates,
     offsets |-> offsets]

boxes_of(d) == IF d.cls = "Circuit" THEN d.boxes ELSE <<d>>
offsets_of(d) == IF d.cls = "Circuit" THEN d.offsets ELSE <<0>>

\* Diagram.tensor, which Ket.tensor and Bra.tensor fall back on (lines 422
\* and 488): the boxes of both, those of `other` moved right by the
\* codomain of `self`.
Diagram_tensor(self, other) ==
    Circuit(self.dom \o other.dom, self.cod \o other.cod,
            boxes_of(self) \o boxes_of(other),
            offsets_of(self)
            \o [i \in DOMAIN offsets_of(other) |->
                    offsets_of(other)[i] + Len(self.cod)])

\* Ket.tensor, lines 411-422
\* Ket.tensor with the bitstrings joined the other way round
Ket_tensor_reversed(self, other) ==
    IF other.cls = "Ket" THEN Ket(other.bitstring \o self.bitstring)
    ELSE Diagram_tensor(self, other)

Ket_tensor(self, other) ==
    IF other.cls = "Ket" THEN Ket(self.bitstring \o other.bitstring)
    ELSE Diagram_tensor(self, other)

\* Bra.tensor, lines 476-488
Bra_tensor(self, other) ==
    IF other.cls = "Bra" THEN Bra(self.bitstring \o other.bitstring)
    ELSE Diagram_tensor(self, other)

\* self @ other: the method of the class of `self`
tensor(self, other) ==
    IF self.cls = "Ket" THEN Ket_tensor(self, other)
    ELSE IF self.cls = "Bra" THEN Bra_tensor(self, other)
    ELSE Diagram_tensor(self, other)

\* not self._dagger
Not(flag) == IF flag = "True" THEN "False" ELSE "True"

\* Gate.dagger, lines 383-393
\* Gate.dagger without the test for a self-inverse gate
Gate_dagger_flip(self) ==
    Gate(self.name, Len(self.dom), self.array, Not(self.dagger))

Gate_dagger(self) ==
    Gate(self.name, Len(self.dom), self.array,
         IF self.dagger = "None" THEN "None" ELSE Not(self.dagger))

\* Rz.dagger and Rx.dagger, lines 544-548 and 592-596
Rz_dagger(self) == Rz(-self.phase)
Rx_dagger(self) == Rx(-self.phase)

\* Ket.dagger and Bra.dagger, lines 431-436 and 490-495
Ket_dagger(self) == Bra(self.bitstring)
Bra_dagger(self) == Ket(self.bitstring)

\* box.dagger(): the method of the class of the box
dagger(self) ==
    IF self.cls = "Ket" THEN Ket_dagger(self)
    ELSE IF self.cls = "Bra" THEN Bra_dagger(self)
    ELSE IF self.cls = "Rz" THEN Rz_dagger(self)
    ELSE IF self.cls = "Rx" THEN Rx_dagger(self)
    ELSE Gate_dagger(self)

\* Sequence s without its entry i.
Without(s, i) == SubSeq(s, 1, i - 1) \o SubSeq(s, i + 1, Len(s))

\* remove_scalars, lines 152-156: diagram[:i] >> diagram[i + 1:] for the
\* first box i from nothing to nothing, with its array[0]; `found` is
\* FALSE where the code returns None for the number.
\* remove_scalars taking the latest scalar box instead of the earliest
remove_scalars_last(diag) ==
    LET hits == {i \in DOMAIN diag.boxes :
                    diag.boxes[i].dom = PRO(0) /\ diag.boxes[i].cod = PRO(0)}
        i == CHOOSE k \in hits : \A j \in hits : k >= j
    IN  IF hits = {} THEN [diagram |-> diag, number |-> 0, found |-> FALSE]
        ELSE [diagram |-> Circuit(diag.dom, diag.cod,
                                  Without(diag.boxes, i),
                                  Without(diag.offsets, i)),
              number |-> diag.boxes[i].array, found |-> TRUE]

remove_scalars(diag) ==
    LET hits == {i \in DOMAIN diag.boxes :
                    diag.boxes[i].dom = PRO(0) /\ diag.boxes[i].cod = PRO(0)}
        i == CHOOSE k \in hits : \A j \in hits : k <= j
    IN  IF hits = {} THEN [diagram |-> diag, number |-> 0, found |-> FALSE]
        ELSE [diagram |-> Circuit(diag.dom, diag.cod,
                                  Without(diag.boxes, i),
                                  Without(diag.offsets, i)),
              number |-> diag.boxes[i].array, found |-> TRUE]

\* Diagram.interchange(i, i - 1) of the diagram collaborator, for Python
\* positions i >= 1: the box at i moves before the box at i - 1 when the
\* two occupy disjoint wire ranges, and InterchangerError is raised
\* otherwise.  Diagrams are immutable values: the result is a new diagram.
interchange(diag, i) ==
    LET b0 == diag.boxes[i]
        o0 == diag.offsets[i]
        b1 == diag.boxes[i + 1]
        o1 == diag.offsets[i + 1]
        right_of == o1 >= o0 + Len(b0.cod)
        left_of == o1 + Len(b1.dom) <= o0
        swapped(n1, n0) ==
            Circuit(diag.dom, diag.cod,
                    [diag.boxes EXCEPT ![i] = b1, ![i + 1] = b0],
                    [diag.offsets EXCEPT ![i] = n1, ![i + 1] = n0])
    IN  IF right_of
        THEN [diagram |-> swapped(o1 - Len(b0.cod) + Len(b0.dom), o0),
              raised |-> "none"]
        ELSE IF left_of
        THEN [diagram |-> swapped(o1, o0 - Len(b1.dom) + Len(b1.cod)),
              raised |-> "none"]
        ELSE [diagram |-> diag, raised |-> "InterchangerError"]

\* the box at Python position p brought up to position t by interchanges
RECURSIVE RiseTo(_, _, _)
RiseTo(diag, p, t) ==
    IF p <= t THEN [ok |-> TRUE, diagram |-> diag]
    ELSE LET r == interchange(diag, p)
         IN  IF r.raised # "none" THEN [ok |-> FALSE, diagram |-> diag]
             ELSE RiseTo(r.diagram, p - 1, t)

\* Diagram.foliation() as far as line 182 reads it: the boxes that no
\* other box precedes on a wire come first, as the first slice, in their
\* order; k counts them.
RECURSIVE Foliate(_, _, _)
Foliate(diag, p, k) ==
    IF p >= Len(diag.boxes) THEN [diagram |-> diag, first |-> k]
    ELSE IF RiseTo(diag, p, 0).ok
    THEN Foliate(RiseTo(diag, p, k).diagram, p + 1, k + 1)
    ELSE Foliate(diag, p + 1, k)

foliation(diag) == Foliate(diag, 0, 0)

\* the type after the first k boxes of a diagram
RECURSIVE WidthAfter(_, _)
WidthAfter(diag, k) ==
    IF k = 0 THEN Len(diag.dom)
    ELSE WidthAfter(diag, k - 1)
         - Len(diag.boxes[k].dom) + Len(diag.boxes[k].cod)

\* slices[1:].flatten(), line 182
flatten_from_1(f) ==
    Circuit(PRO(WidthAfter(f.diagram, f.first)), f.diagram.cod,
            From(f.diagram.boxes, f.first), From(f.diagram.offsets, f.first))

\* slices.boxes[0], line 186
first_slice(f) ==
    Circuit(f.diagram.dom, PRO(WidthAfter(f.diagram, f.first)),
            Upto(f.diagram.boxes, f.first), Upto(f.diagram.offsets, f.first))

\* move_ket, lines 158-168, for i >= 1.  The value of interchange is
\* dropped (line 160), so the diagram returned at line 161 is the one
\* given.  InterchangerError is no name of the module: when interchange
\* raises, evaluating the except clause of line 162 raises NameError, and
\* lines 163-168 never run.
move_ket(diag, i) ==
    IF interchange(diag, i).raised = "none"
    THEN [diagram |-> diag, i |-> i - 1, raised |-> "none"]
    ELSE [diagram |-> diag, i |-> i, raised |-> "NameError"]

---------------------------------------------------------------------------
\* The boxes of discopy.quantum that tk.py dispatches on: those above on
\* qubit wires, and the boxes of classical bits.  A layer is
\* (left, box, right).

qubit == "qubit"
bit == "bit"

\* A box of qubits: each of its wires is the wire `qubit`.
Qubits(b) ==
    [b EXCEPT !.dom = Rep(Len(b.dom), qubit), !.cod = Rep(Len(b.cod), qubit)]

Bits(bitstring) ==
    Box("Bits", "Bits", <<>>, Rep(Len(bitstring), bit), bitstring, 0, 1, "False")
Measure == Box("Measure", "Measure", <<qubit>>, <<bit>>, <<>>, 0, 0, "False")
Discard == Box("Discard", "Discard", <<qubit>>, <<>>, <<>>, 0, 0, "False")
Swap(x, y) == Box("Swap", "SWAP", <<x, y>>, <<y, x>>, <<>>, 0, 0, "None")
CRz(phase) ==
    Box("CRz", "CRz", <<qubit, qubit>>, <<qubit, qubit>>, <<>>, phase, 0, "False")

Layer(left, box, right) == [left |-> left, box |-> box, right |-> right]

\* An identity wire as a factor of a tensor product.
IdWire(x) == Box("Id", "Id", <<x>>, <<x>>, <<>>, 0, 0, "None")

\* No box: the value of a name that was never bound.
NoBox == Box("None", "None", <<>>, <<>>, <<>>, 0, 0, "None")

RECURSIVE Doms(_)
Doms(factors) ==
    IF factors = <<>> THEN <<>> ELSE Head(factors).dom \o Doms(Tail(factors))

\* The layers of Id(0).tensor(f_1, ..., f_n) between the wires `left` and
\* `right`: each box sits after the codomains of the factors before it and
\* before the domains of the factors after it.
RECURSIVE TensorLayers(_, _, _)
TensorLayers(left, factors, right) ==
    IF factors = <<>> THEN <<>>
    ELSE LET f == Head(factors)
             more == TensorLayers(left \o f.cod, Tail(factors), right)
         IN  IF f.cls = "Id" THEN more
             ELSE <<Layer(left, f, Doms(Tail(factors)) \o right)>> \o more

---------------------------------------------------------------------------
\* pytket units and the TketCircuit object (tk.py lines 22-75).

Qubit(i) == [kind |-> "Qubit", reg |-> "q", idx |-> i]
Bit(i) == [kind |-> "Bit", reg |-> "c", idx |-> i]
TmpQubit == [kind |-> "Qubit", reg |-> "tmp", idx |-> 0]
TmpBit == [kind |-> "Bit", reg |-> "tmp", idx |-> 0]

EmptyDict == [k \in {} |-> 0]

\* TketCircuit(): no units, no commands, post_selection {} and scalar 1.
\* `raised` records the exception that ended the translation, if any.
TketCircuit ==
    [qubits |-> {}, bits |-> {}, commands |-> <<>>,
     post_selection |-> EmptyDict, scalar |-> 1, raised |-> "none"]

n_qubits(tk) == Cardinality(tk.qubits)
n_bits(tk) == Cardinality(tk.bits)

Raise(tk, exc) == IF tk.raised = "none" THEN [tk EXCEPT !.raised = exc] ELSE tk

\* dict.update
Update(d, e) ==
    [k \in DOMAIN d \cup DOMAIN e |-> IF k \in DOMAIN e THEN e[k] ELSE d[k]]

\* TketCircuit.rename_units: the constraints of the renamed bits move to
\* the new index (bits are keyed by index[0] alone), then pytket renames
\* the units that exist in the circuit, and refuses a renaming onto a unit
\* that exists and keeps its name.
rename_units(tk, renaming) ==
    LET bits_to_rename ==
            {old \in DOMAIN renaming :
                old.kind = "Bit" /\ old.idx \in DOMAIN tk.post_selection}
        post_selection_renaming ==
            [k \in {renaming[old].idx : old \in bits_to_rename} |->
                LET old == CHOOSE o \in bits_to_rename : renaming[o].idx = k
                IN  tk.post_selection[old.idx]]
        kept == [k \in DOMAIN tk.post_selection
                        \ {old.idx : old \in bits_to_rename} |->
                    tk.post_selection[k]]
        units == tk.qubits \cup tk.bits
        R(u) == IF u \in DOMAIN renaming /\ u \in units THEN renaming[u] ELSE u
        clash == \E u, v \in units : u # v /\ R(u) = R(v)
    IN  IF tk.raised # "none" THEN tk
        ELSE IF clash
        THEN Raise([tk EXCEPT !.post_selection =
                        Update(kept, post_selection_renaming)], "RuntimeError")
        ELSE [tk EXCEPT
                !.post_selection = Update(kept, post_selection_renaming),
                !.qubits = {R(u) : u \in tk.qubits},
                !.bits = {R(u) : u \in tk.bits},
                !.commands = [i \in DOMAIN tk.commands |->
                    [tk.commands[i] EXCEPT
                        !.qubits = [j \in DOMAIN tk.commands[i].qubits |->
                                        R(tk.commands[i].qubits[j])],
                        !.bits = [j \in DOMAIN tk.commands[i].bits |->
                                        R(tk.commands[i].bits[j])]]]]

\* TketCircuit.scale
scale(tk, number) ==
    IF tk.raised # "none" THEN tk ELSE [tk EXCEPT !.scalar = @ * number]

\* TketCircuit.post_select
post_select(tk, post_selection) ==
    IF tk.raised # "none" THEN tk
    ELSE [tk EXCEPT !.post_selection = Update(@, post_selection)]

\* pytket's add_blank_wires(n): n new qubits of the default register, on
\* the lowest indices not in use.
add_blank_wires(tk, n) ==
    LET used == {u.idx : u \in {v \in tk.qubits : v.reg = "q"}}
        free == (0..(Cardinality(used) + n)) \ used
        new == {i \in free : Cardinality({j \in free : j < i}) < n}
    IN  IF tk.raised # "none" THEN tk
        ELSE [tk EXCEPT !.qubits = @ \cup {Qubit(i) : i \in new}]

\* pytket's add_bit: a unit that exists already is refused.
add_bit(tk, b) ==
    IF tk.raised # "none" THEN tk
    ELSE IF b \in tk.bits THEN Raise(tk, "RuntimeError")
    ELSE [tk EXCEPT !.bits = @ \cup {b}]

\* A pytket instruction method called with index arguments: the command is
\* appended on the default registers' units, which must exist and differ.
add_command(tk, name, params, i_qubits, i_bits) ==
    LET qs == [j \in DOMAIN i_qubits |-> Qubit(i_qubits[j])]
        bs == [j \in DOMAIN i_bits |-> Bit(i_bits[j])]
        ok == /\ \A j \in DOMAIN qs : qs[j] \in tk.qubits
              /\ \A j \in DOMAIN bs : bs[j] \in tk.bits
              /\ \A j, k \in DOMAIN qs : j # k => qs[j] # qs[k]
    IN  IF tk.raised # "none" THEN tk
        ELSE IF ~ok THEN Raise(tk, "RuntimeError")
        ELSE [tk EXCEPT !.commands = Append(@,
                [name |-> name, params |-> params, qubits |-> qs, bits |-> bs])]

---------------------------------------------------------------------------
\* to_tk (tk.py lines 78-183).  The closures read and write tk_circ; here
\* they take and return the translation state
\* [tk_circ, qubits, bits].

\* s[i] for a Python index i >= -1; an index out of range raises.
InRange(s, i) == IF i < 0 THEN -i <= Len(s) ELSE i < Len(s)
Item(s, i) == IF i < 0 THEN s[Len(s) + i + 1] ELSE s[i + 1]

\* The names for which hasattr(tk_circ, name) holds: pytket's instruction
\* methods, and the other attributes of the TketCircuit object.
GateNames ==
    {"SWAP", "CX", "H", "S", "T", "X", "Y", "Z", "Rx", "Rz", "CRz", "Measure"}
OtherAttributes == {"scale", "post_select", "rename_units", "add_bit"}
hasattr(name) == name \in GateNames \cup OtherAttributes

\* tk_circ.__getattribute__(name)(*args)
call(tk, name, params, args) ==
    IF name \in GateNames THEN add_command(tk, name, params, args, <<>>)
    ELSE IF name = "scale" /\ Len(params \o args) = 1
         THEN scale(tk, (params \o args)[1])
    ELSE Raise(tk, "TypeError")

\* lines 90-94, applied to one layer by the functor of line 156
remove_ket1(layer) ==
    LET box == layer.box
        x_gates == [i \in DOMAIN box.bitstring |->
                        IF box.bitstring[i] # 0 THEN Qubits(X) ELSE IdWire(qubit)]
    IN  IF box.cls # "Ket" THEN <<layer>>
        ELSE <<Layer(layer.left, Qubits(Ket(Rep(Len(box.bitstring), 0))),
                    layer.right)>>
             \o TensorLayers(layer.left, x_gates, layer.right)

\* lines 96-108
prepare_qubits(s, left, box, right) ==
    LET tk == s.tk_circ
        i == Count(left, qubit) - 1
        start == IF s.qubits # <<>> THEN Item(s.qubits, i) + 1 ELSE n_qubits(tk)
        renaming == [old \in {Qubit(k) : k \in start..(n_qubits(tk) - 1)} |->
                        Qubit(old.idx + Len(box.cod))]
    IN  IF s.qubits # <<>> /\ ~InRange(s.qubits, i)
        THEN [s EXCEPT !.tk_circ = Raise(tk, "IndexError")]
        ELSE [s EXCEPT
                !.tk_circ = add_blank_wires(rename_units(tk, renaming),
                                            Len(box.cod)),
                !.qubits = Upto(s.qubits, Count(left, qubit))
                           \o Range(start, start + Len(box.cod))
                           \o Last(s.qubits, Count(right, qubit))]

RECURSIVE add_bits(_, _, _)
add_bits(tk, a, b) ==
    IF a >= b THEN tk ELSE add_bits(add_bit(tk, Bit(a)), a + 1, b)

\* lines 110-122
prepare_bits(s, left, box, right) ==
    LET tk == s.tk_circ
        i == Count(left, bit) - 1
        start == IF s.bits # <<>> THEN Item(s.bits, i) + 1 ELSE n_bits(tk)
        renaming == [old \in {Bit(k) : k \in start..(n_qubits(tk) - 1)} |->
                        Bit(old.idx + Len(box.cod))]
    IN  IF s.bits # <<>> /\ ~InRange(s.bits, i)
        THEN [s EXCEPT !.tk_circ = Raise(tk, "IndexError")]
        ELSE [s EXCEPT
                !.tk_circ = add_bits(rename_units(tk, renaming),
                                     start, start + Len(box.cod)),
                !.bits = Upto(s.bits, Count(left, bit))
                         \o Range(start, start + Len(box.cod))
                         \o Last(s.bits, Count(right, bit))]

\* lines 124-134: the loop from wire j of the box on; returns the state
\* with the new `bits`.
RECURSIVE measure_qubits(_, _, _, _, _)
measure_qubits(s, left, box, right, j) ==
    LET tk == s.tk_circ
        i_bit == n_bits(tk)
        k == Count(left, qubit) + j
        i_qubit == Item(s.qubits, k)
        tk1 == add_command(add_bit(tk, Bit(i_bit)), "Measure", <<>>,
                           <<i_qubit>>, <<i_bit>>)
        tk2 == IF box.cls = "Bra"
               THEN post_select(tk1, (i_bit :> box.bitstring[j + 1]))
               ELSE tk1
        bits1 == IF box.cls = "Measure"
                 THEN Upto(s.bits, Count(left, bit) + j) \o <<i_bit>>
                      \o Last(s.bits, Count(right, bit))
                 ELSE s.bits
    IN  IF j >= Len(box.dom) \/ tk.raised # "none" THEN s
        ELSE IF ~InRange(s.qubits, k)
        THEN [s EXCEPT !.tk_circ = Raise(tk, "IndexError")]
        ELSE measure_qubits([s EXCEPT !.tk_circ = tk2, !.bits = bits1],
                            left, box, right, j + 1)

\* lines 136-142, with unit_factory given by the kind of unit
swap(tk, i, j, kind) ==
    LET old == IF kind = "Bit" THEN Bit(i) ELSE Qubit(i)
        tmp == IF kind = "Bit" THEN TmpBit ELSE TmpQubit
        new == IF kind = "Bit" THEN Bit(j) ELSE Qubit(j)
    IN  rename_units(rename_units(rename_units(tk,
            (old :> tmp)), (new :> old)), (tmp :> new))

\* lines 144-154.  A rotation's name is kept without its phase, so that
\* box.name[:2] and box.name[:3] are box.name here.
add_gate(s, left, box, right) ==
    LET tk == s.tk_circ
        offset == Count(left, qubit)
        i_qubits == [j \in 1..Len(box.dom) |-> Item(s.qubits, offset + j - 1)]
    IN  IF \E j \in 1..Len(box.dom) : ~InRange(s.qubits, offset + j - 1)
        THEN [s EXCEPT !.tk_circ = Raise(tk, "IndexError")]
        ELSE IF box.cls \in {"Rx", "Rz"}
        THEN [s EXCEPT !.tk_circ =
                call(tk, box.name, <<2 * box.phase>>, i_qubits)]
        ELSE IF box.cls = "CRz"
        THEN [s EXCEPT !.tk_circ =
                call(tk, box.name, <<2 * box.phase>>, i_qubits)]
        ELSE IF hasattr(box.name)
        THEN [s EXCEPT !.tk_circ = call(tk, box.name, <<>>, i_qubits)]
        ELSE [s EXCEPT !.tk_circ = Raise(tk, "NotImplementedError")]

\* lines 157-182: one iteration of the loop over circuit.layers
to_tk_body(s, layer) ==
    LET left == layer.left
        box == layer.box
        right == layer.right
        tk == s.tk_circ
        cut == [s EXCEPT
                  !.qubits = Upto(s.qubits, Count(left, qubit))
                             \o Last(s.qubits, Count(right, qubit))]
    IN  IF box.cls = "Ket" THEN prepare_qubits(s, left, box, right)
        ELSE IF box.cls = "Bits" THEN prepare_bits(s, left, box, right)
        ELSE IF box.cls \in {"Measure", "Bra"}
        THEN LET m == measure_qubits(s, left, box, right, 0)
             IN  [m EXCEPT
                    !.qubits = Upto(s.qubits, Count(left, qubit))
                               \o Last(s.qubits, Count(right, qubit))]
        ELSE IF box.cls = "Discard"
        THEN [cut EXCEPT
                !.bits = Upto(s.bits, Count(left, bit))
                         \o Last(s.bits, Count(right, bit))]
        ELSE IF box.cls = "Swap"
        THEN IF box = Swap(qubit, qubit)
             THEN LET off == Count(left, qubit)
                  IN  IF ~InRange(s.qubits, off + 1)
                      THEN [s EXCEPT !.tk_circ = Raise(tk, "IndexError")]
                      ELSE [s EXCEPT !.tk_circ =
                              swap(tk, Item(s.qubits, off),
                                   Item(s.qubits, off + 1), "Qubit")]
             ELSE IF box = Swap(bit, bit)
             THEN LET off == Count(left, bit)
                  IN  IF ~InRange(s.bits, off + 1)
                      THEN [s EXCEPT !.tk_circ = Raise(tk, "IndexError")]
                      ELSE [s EXCEPT !.tk_circ =
                              swap(tk, Item(s.bits, off),
                                   Item(s.bits, off + 1), "Bit")]
             ELSE IF box \in {Swap(qubit, bit), Swap(bit, qubit)}
             THEN s
             ELSE [s EXCEPT !.tk_circ = Raise(tk, "ValueError")]
        ELSE IF box.dom = <<>> /\ box.cod = <<>>
        THEN [s EXCEPT !.tk_circ = scale(tk, box.array)]
        ELSE add_gate(s, left, box, right)

\* circuit.cod: the type after the layers of a circuit
RECURSIVE TypeAfter(_, _)
TypeAfter(ty, ls) ==
    IF ls = <<>> THEN ty
    ELSE TypeAfter(Head(ls).left \o Head(ls).box.cod \o Head(ls).right, Tail(ls))

Cod(c) == TypeAfter(c.dom, c.layers)

RECURSIVE Flatten(_)
Flatten(ss) == IF ss = <<>> THEN <<>> ELSE Head(ss) \o Flatten(Tail(ss))

\* lines 79-86 and 156: the layers the loop visits
to_tk_layers(c) ==
    LET init == TensorLayers(<<>>,
                    [i \in DOMAIN c.dom |->
                        IF c.dom[i] = bit THEN Bits(<<0>>)
                        ELSE Qubits(Ket(<<0>>))],
                    <<>>)
        cod == Cod(c)
        discards ==
            IF cod # Rep(Len(cod), bit)
            THEN TensorLayers(<<>>,
                    [i \in DOMAIN cod |->
                        IF cod[i] = qubit THEN Discard ELSE IdWire(bit)],
                    <<>>)
            ELSE <<>>
        all == init \o c.layers \o discards
    IN  Flatten([i \in DOMAIN all |-> remove_ket1(all[i])])

---------------------------------------------------------------------------
\* from_tk (tk.py lines 186-243).  A logical circuit is [dom, layers].

\* TketCircuit.__init__ (lines 35-38), with the commands added after it.
\* `number` is <<>> for None and <<z>> for z: `scalar or 1` is 1 for both
\* None and 0.
TketCircuitInit(qs, bs, cmds, post_selection, number) ==
    [qubits |-> {Qubit(i) : i \in 0..(qs - 1)},
     bits |-> {Bit(i) : i \in 0..(bs - 1)},
     commands |-> cmds,
     post_selection |-> post_selection,
     scalar |-> IF number = <<>> \/ number[1] = 0 THEN 1 ELSE number[1],
     raised |-> "none"]

\* The names of `gates`, with the width of each.
gates == {Qubits(g) : g \in {SWAP, CX, H, S, T, X, Y, Z}}

\* params[0] / 2
Half(x) == x \div 2

\* lines 196-209
box_from_tk(tk_gate) ==
    LET name == tk_gate.name
    IN  IF name = "Measure" THEN [box |-> Measure, raised |-> "none"]
        ELSE IF name = "Rx"
        THEN [box |-> Qubits(Rx(Half(tk_gate.params[1]))), raised |-> "none"]
        ELSE IF name = "Rz"
        THEN [box |-> Qubits(Rz(Half(tk_gate.params[1]))), raised |-> "none"]
        ELSE IF name = "CRz"
        THEN [box |-> CRz(Half(tk_gate.params[1])), raised |-> "none"]
        ELSE IF \E gate \in gates : name = gate.name
        THEN [box |-> CHOOSE gate \in gates : name = gate.name,
              raised |-> "none"]
        ELSE [box |-> NoBox, raised |-> "NotImplementedError"]

\* Circuit.swap(left, right) for a single wire `left`, between the wires
\* `before` and `after`: the wire passes the wires of `right` one by one.
swap_layers(before, left, right, after) ==
    [i \in DOMAIN right |->
        Layer(before \o SubSeq(right, 1, i - 1),
              Swap(left[1], right[i]),
              SubSeq(right, i + 1, Len(right)) \o after)]

\* lines 211-229: the loop from entry i of tk_gate.qubits[1:] on.  The
\* name `souce` of line 222 is bound nowhere: evaluating it raises.
RECURSIVE make_units_adjacent(_, _, _, _, _)
make_units_adjacent(tk_gate, i, offset, swaps, cod) ==
    LET source == tk_gate.qubits[i + 2].idx
        target == offset + i + 1
        left == Upto(cod, source)
        right == From(cod, target)
        swap_ == swap_layers(left, SubSeq(cod, source + 1, source + 1),
                             SubSeq(cod, source + 2, target), right)
    IN  IF i + 2 > Len(tk_gate.qubits)
        THEN [offset |-> offset, swaps |-> swaps, raised |-> "none"]
        ELSE IF source < target
        THEN make_units_adjacent(tk_gate, i + 1,
                IF source <= offset THEN offset - 1 ELSE offset,
                swaps \o swap_, TypeAfter(cod, swap_))
        ELSE [offset |-> offset, swaps |-> swaps, raised |-> "NameError"]

\* swaps[::-1]: the layers in reverse, each swap daggered
Reverse(ls) ==
    [i \in DOMAIN ls |->
        LET l == ls[Len(ls) + 1 - i]
        IN  [l EXCEPT !.box = Swap(l.box.dom[2], l.box.dom[1])]]

\* lines 231-240: one iteration of the loop over the commands.  The names
\* `post_selection` of line 235 and `scal` of line 242 are bound nowhere.
from_tk_body(c, tk_gate, tk) ==
    LET b == box_from_tk(tk_gate)
        ty == Rep(n_qubits(tk), qubit) \o Rep(n_bits(tk), bit)
        m == make_units_adjacent(tk_gate, 0, tk_gate.qubits[1].idx, <<>>, ty)
        cod == Cod(c)
        left == Upto(cod, m.offset)
        right == From(cod, m.offset + Len(b.box.dom))
        fail(exc) == [circuit |-> c, raised |-> exc, offset |-> 0,
                      swaps |-> <<>>, box |-> NoBox]
    IN  IF b.raised # "none" THEN fail(b.raised)
        ELSE IF b.box = Measure
        THEN IF tk_gate.bits[1].idx \in DOMAIN tk.post_selection
             THEN fail("NameError")
             ELSE fail("NotImplementedError")
        ELSE IF m.raised # "none" THEN fail(m.raised)
        ELSE [circuit |-> [c EXCEPT !.layers =
                            @ \o m.swaps \o <<Layer(left, b.box, right)>>
                              \o Reverse(m.swaps)],
              raised |-> "none", offset |-> m.offset, swaps |-> m.swaps,
              box |-> b.box]

---------------------------------------------------------------------------
\* The input circuits: every well-typed circuit over the boxes below, of at
\* most MaxDepth layers on at most MaxWidth wires.

\* A box whose name is no attribute of the pytket circuit, and one whose
\* name is TketCircuit.scale, which is no instruction.
Unsupported == Qubits(Gate("Foo", 1, 0, "False"))
Coincides == Qubits(Gate("scale", 1, 0, "False"))

BoxAlphabet ==
    {Qubits(b) : b \in {Ket(<<0>>), Ket(<<1>>), Ket(<<0, 1>>),
                        Bra(<<0>>), Bra(<<1>>), Bra(<<1, 0>>), X, CX, Rx(1)}}
    \cup {Bits(<<0>>), Measure, Discard, CRz(1), Scalar(2), Scalar(3),
          Swap(qubit, qubit), Swap(bit, bit), Swap(qubit, bit),
          Swap(bit, qubit), Unsupported, Coincides}

Types(n) == UNION {[1..k -> {qubit, bit}] : k \in 0..n}

LayersOn(ty) ==
    {Layer(Upto(ty, k), b, From(ty, k + Len(b.dom))) :
        <<k, b>> \in {kb \in (0..Len(ty)) \X BoxAlphabet :
            /\ kb[1] + Len(kb[2].dom) <= Len(ty)
            /\ SubSeq(ty, kb[1] + 1, kb[1] + Len(kb[2].dom)) = kb[2].dom
            /\ Len(ty) - Len(kb[2].dom) + Len(kb[2].cod) <= MaxWidth}}

RECURSIVE LayersFrom(_, _)
LayersFrom(ty, d) ==
    IF d = 0 THEN {<<>>}
    ELSE {<<>>} \cup
         UNION {{<<l>> \o rest :
                    rest \in LayersFrom(l.left \o l.box.cod \o l.right, d - 1)} :
                l \in LayersOn(ty)}

Inputs ==
    UNION {{[dom |-> ty, layers |-> ls] : ls \in LayersFrom(ty, MaxDepth)} :
            ty \in Types(MaxDom)}

NoRequest == [op |-> "none", i |-> 0, j |-> 0, renaming |-> EmptyDict]

NoLayer == Layer(<<>>, IdWire(qubit), <<>>)

\* The history of a translation: the unit each logical qubit wire and each
\* logical bit wire has its data on, the bit and expected value of each
\* wire an effect box has closed, and the bits plain measurements wrote.
NoCarried == [qubits |-> <<>>, bits |-> <<>>, effects |-> <<>>, measured |-> {}]

NoLast == [layer |-> NoLayer, qubits |-> <<>>, bits |-> <<>>,
           tk_circ |-> TketCircuit, carried |-> NoCarried]

\* a unit after a renaming
Renamed(renaming, u) == IF u \in DOMAIN renaming THEN renaming[u] ELSE u

\* the units of a set in the order of their indices
RECURSIVE Ascending(_)
Ascending(units) ==
    IF units = {} THEN <<>>
    ELSE LET u == CHOOSE v \in units : \A w \in units : v.idx <= w.idx
         IN  <<u>> \o Ascending(units \ {u})

\* The history after the loop has taken the state s over `layer` to t.
\* Data stays on its unit through a renaming of the unit; a Ket or Bits
\* box puts its wires on the units it adds; a Measure, Bra or Discard
\* closes its qubit wires, a Measure opening a bit wire on each bit it
\* writes; a swap box exchanges two wires.
carry(c, s, layer, t) ==
    LET box == layer.box
        lq == Count(layer.left, qubit)
        lb == Count(layer.left, bit)
        n == Len(box.cod)
        startq == IF s.qubits # <<>> THEN Item(s.qubits, lq - 1) + 1
                  ELSE n_qubits(s.tk_circ)
        startb == IF s.bits # <<>> THEN Item(s.bits, lb - 1) + 1
                  ELSE n_bits(s.tk_circ)
        shiftq == [old \in {Qubit(k) : k \in startq..(n_qubits(s.tk_circ) - 1)}
                        |-> Qubit(old.idx + n)]
        shiftb == [old \in {Bit(k) : k \in startb..(n_qubits(s.tk_circ) - 1)}
                        |-> Bit(old.idx + n)]
        On(r, us) == [k \in DOMAIN us |-> Renamed(r, us[k])]
        OnBits(r) ==
            [c EXCEPT !.bits = On(r, c.bits),
                      !.effects = [k \in DOMAIN c.effects |->
                            [c.effects[k] EXCEPT !.unit = Renamed(r, @)]],
                      !.measured = {Renamed(r, u) : u \in c.measured}]
        written == [j \in 1..Len(box.dom) |->
                        t.tk_circ.commands[Len(s.tk_circ.commands) + j].bits[1]]
        closed == Upto(c.qubits, lq) \o From(c.qubits, lq + Len(box.dom))
        Exchange(us, k) == [us EXCEPT ![k] = us[k + 1], ![k + 1] = us[k]]
        Through(a, b, tmp, u) ==
            Renamed((tmp :> b), Renamed((b :> a), Renamed((a :> tmp), u)))
    IN  IF t.tk_circ.raised # "none" THEN c
        ELSE IF box.cls = "Ket"
        THEN [c EXCEPT !.qubits =
                On(shiftq, Upto(c.qubits, lq))
                \o Ascending(t.tk_circ.qubits
                        \ {Renamed(shiftq, u) : u \in s.tk_circ.qubits})
                \o On(shiftq, From(c.qubits, lq))]
        ELSE IF box.cls = "Bits"
        THEN LET r == OnBits(shiftb)
             IN  [r EXCEPT !.bits =
                    Upto(r.bits, lb)
                    \o Ascending(t.tk_circ.bits
                            \ {Renamed(shiftb, u) : u \in s.tk_circ.bits})
                    \o From(r.bits, lb)]
        ELSE IF box.cls = "Measure"
        THEN [c EXCEPT !.qubits = closed,
                       !.bits = Upto(c.bits, lb) \o written \o From(c.bits, lb),
                       !.measured = @ \cup {written[j] : j \in DOMAIN written}]
        ELSE IF box.cls = "Bra"
        THEN [c EXCEPT !.qubits = closed,
                       !.effects = @ \o [j \in DOMAIN written |->
                            [unit |-> written[j], value |-> box.bitstring[j]]]]
        ELSE IF box.cls = "Discard"
        THEN [c EXCEPT !.qubits = closed]
        ELSE IF box = Swap(qubit, qubit)
        THEN LET a == Qubit(Item(s.qubits, lq))
                 b == Qubit(Item(s.qubits, lq + 1))
             IN  [c EXCEPT !.qubits =
                    Exchange([k \in DOMAIN c.qubits |->
                                Through(a, b, TmpQubit, c.qubits[k])], lq + 1)]
        ELSE IF box = Swap(bit, bit)
        THEN LET a == Bit(Item(s.bits, lb))
                 b == Bit(Item(s.bits, lb + 1))
                 r == [c EXCEPT
                        !.bits = [k \in DOMAIN c.bits |->
                                    Through(a, b, TmpBit, c.bits[k])],
                        !.effects = [k \in DOMAIN c.effects |->
                            [c.effects[k] EXCEPT
                                !.unit = Through(a, b, TmpBit, @)]],
                        !.measured = {Through(a, b, TmpBit, u) : u \in c.measured}]
             IN  [r EXCEPT !.bits = Exchange(r.bits, lb + 1)]
        ELSE c

\* The input pytket circuits: up to MaxQubits qubits and one bit, up to
\* MaxCommands commands on any placement of their wires, with or without a
\* constraint on the bit, and any scalar.
CommandsOn(qs, bs) ==
    LET cmd(name, params, q, b) ==
            [name |-> name, params |-> params,
             qubits |-> [j \in DOMAIN q |-> Qubit(q[j])],
             bits |-> [j \in DOMAIN b |-> Bit(b[j])]]
        Q == 0..(qs - 1)
    IN  {cmd("X", <<>>, <<q>>, <<>>) : q \in Q}
        \cup {cmd("CX", <<>>, <<qq[1], qq[2]>>, <<>>) :
                qq \in {x \in Q \X Q : x[1] # x[2]}}
        \cup {cmd("Rx", <<2>>, <<0>>, <<>>), cmd("Foo", <<>>, <<0>>, <<>>)}
        \cup {cmd("Measure", <<>>, <<q>>, <<b>>) : q \in Q, b \in 0..(bs - 1)}

CommandLists(qs, bs) ==
    UNION {[1..k -> CommandsOn(qs, bs)] : k \in 0..MaxCommands}

TkInputs ==
    UNION {UNION {
        {TketCircuitInit(qs, bs, cs, ps, z) :
            cs \in CommandLists(qs, bs),
            ps \in IF bs = 0 THEN {EmptyDict}
                   ELSE {EmptyDict, (0 :> 0), (0 :> 1)},
            z \in {<<>>, <<0>>, <<1>>, <<2>>}} :
        bs \in 0..1} : qs \in 1..MaxQubits}

Id(ty) == [dom |-> ty, layers |-> <<>>]

NoCommand == [name |-> "none", params |-> <<>>, qubits |-> <<>>, bits |-> <<>>]
NoStep == [gate |-> NoCommand, offset |-> 0, swaps |-> <<>>, box |-> NoBox]

---------------------------------------------------------------------------
\* The translations as a state machine: to_tk on an input circuit, then
\* from_tk on what it returned.

to_tk_idle ==
    /\ layers = <<>>
    /\ qubits = <<>>
    /\ bits = <<>>
    /\ tk_circ = TketCircuit
    /\ last = NoLast
    /\ carried = NoCarried
    /\ request = NoRequest

from_tk_idle ==
    /\ commands = <<>>
    /\ logical = Id(<<>>)
    /\ step = NoStep
    /\ raised = "none"

migrate_idle ==
    /\ slices = foliation(Circuit(PRO(0), PRO(0), <<>>, <<>>))
    /\ _diagram = Circuit(PRO(0), PRO(0), <<>>, <<>>)
    /\ position = 0
    /\ failure = "none"

normalize_idle ==
    /\ receiver = Circuit(PRO(0), PRO(0), <<>>, <<>>)
    /\ diagram = receiver
    /\ scalar = 1
    /\ yielded = <<>>
    /\ migrate_idle

algebra_idle ==
    /\ operands = <<>>
    /\ grouping = "none"
    /\ value = NoBox
    /\ applied = 0

Init ==
    /\ circuit \in Inputs
    /\ to_tk_idle
    /\ tk_circuit = TketCircuit
    /\ from_tk_idle
    /\ normalize_idle
    /\ algebra_idle
    /\ pc = "to_tk"

\* lines 79-88 and 156
to_tk_begin ==
    /\ pc = "to_tk"
    /\ layers' = to_tk_layers(circuit)
    /\ qubits' = <<>>
    /\ bits' = <<>>
    /\ tk_circ' = TketCircuit
    /\ pc' = "loop"
    /\ UNCHANGED <<circuit, last, carried, request, from_tk_vars,
                   normalize_vars, algebra_vars>>

\* lines 157-182: the loop visits the next layer
to_tk_loop ==
    /\ pc = "loop"
    /\ layers # <<>>
    /\ LET before == [tk_circ |-> tk_circ, qubits |-> qubits, bits |-> bits]
           s == to_tk_body(before, Head(layers))
       IN  /\ tk_circ' = s.tk_circ
           /\ qubits' = s.qubits
           /\ bits' = s.bits
           /\ carried' = carry(carried, before, Head(layers), s)
           /\ pc' = IF s.tk_circ.raised = "none" THEN "loop" ELSE "raised"
    /\ last' = [layer |-> Head(layers), qubits |-> qubits, bits |-> bits,
                tk_circ |-> tk_circ, carried |-> carried]
    /\ layers' = Tail(layers)
    /\ UNCHANGED <<circuit, request, from_tk_vars, normalize_vars,
                   algebra_vars>>

\* line 183
to_tk_return ==
    /\ pc = "loop"
    /\ layers = <<>>
    /\ pc' = "returned"
    /\ UNCHANGED <<to_tk_vars, from_tk_vars, normalize_vars, algebra_vars>>

\* from_tk(to_tk(circuit)): the circuit returned is handed to from_tk
round_trip ==
    /\ pc = "returned"
    /\ tk_circuit' = tk_circ
    /\ pc' = "from_tk"
    /\ UNCHANGED <<to_tk_vars, commands, logical, step, raised, normalize_vars,
                   algebra_vars>>

\* lines 190-194 and 230
from_tk_begin ==
    /\ pc = "from_tk"
    /\ commands' = tk_circuit.commands
    /\ logical' = Id(Rep(n_qubits(tk_circuit), qubit)
                     \o Rep(n_bits(tk_circuit), bit))
    /\ pc' = "commands"
    /\ UNCHANGED <<to_tk_vars, tk_circuit, step, raised, normalize_vars,
                   algebra_vars>>

\* lines 231-240: the loop visits the next command
from_tk_loop ==
    /\ pc = "commands"
    /\ commands # <<>>
    /\ LET r == from_tk_body(logical, Head(commands), tk_circuit)
       IN  /\ logical' = r.circuit
           /\ raised' = r.raised
           /\ step' = [gate |-> Head(commands), offset |-> r.offset,
                       swaps |-> r.swaps, box |-> r.box]
           /\ pc' = IF r.raised = "none" THEN "commands" ELSE "failed"
    /\ commands' = Tail(commands)
    /\ UNCHANGED <<to_tk_vars, tk_circuit, normalize_vars, algebra_vars>>

\* lines 241-243
from_tk_return ==
    /\ pc = "commands"
    /\ commands = <<>>
    /\ IF tk_circuit.scalar # 1
       THEN raised' = "NameError" /\ pc' = "failed"
       ELSE raised' = raised /\ pc' = "done"
    /\ UNCHANGED <<to_tk_vars, tk_circuit, commands, logical, step,
                   normalize_vars, algebra_vars>>

from_tk_next == from_tk_begin \/ from_tk_loop \/ from_tk_return

Next == to_tk_begin \/ to_tk_loop \/ to_tk_return \/ round_trip \/ from_tk_next

Spec == Init /\ [][Next]_vars

\* from_tk on its own, on any input pytket circuit
InitFromTk ==
    /\ circuit = Id(<<>>)
    /\ to_tk_idle
    /\ tk_circuit \in TkInputs
    /\ from_tk_idle
    /\ normalize_idle
    /\ algebra_idle
    /\ pc = "from_tk"

SpecFromTk == InitFromTk /\ [][from_tk_next]_vars

---------------------------------------------------------------------------
\* rename_units and the swap of to_tk on their own, on a pytket circuit of
\* up to MaxBitUnits bits with any constraints.

\* The dicts on the bits 0..n-1: any subset constrained, to 0 or to 1.
Constraints(n) ==
    UNION {[keys -> {0, 1}] : keys \in SUBSET (0..(n - 1))}

\* The renamings asked for: one bit onto a free index or onto the
\* temporary unit of swap, and the shift of prepare_bits.
Renamings(n) ==
    {(Bit(k) :> Bit(m)) : k \in 0..(n - 1), m \in n..(n + 1)}
    \cup {(Bit(k) :> TmpBit) : k \in 0..(n - 1)}
    \cup {[old \in {Bit(k) : k \in start..(n - 1)} |-> Bit(old.idx + 1)] :
            start \in 0..(n - 1)}

Requests(n) ==
    {[op |-> "rename_units", i |-> 0, j |-> 0, renaming |-> r] :
        r \in Renamings(n)}
    \cup {[op |-> "swap", i |-> ij[1], j |-> ij[2], renaming |-> EmptyDict] :
            ij \in {x \in (0..(n - 1)) \X (0..(n - 1)) : x[1] # x[2]}}

InitRename ==
    /\ circuit = Id(<<>>)
    /\ layers = <<>>
    /\ qubits = <<>>
    /\ bits = <<>>
    /\ \E n \in 2..MaxBitUnits :
        /\ \E ps \in Constraints(n) :
            tk_circ = [TketCircuit EXCEPT
                            !.bits = {Bit(k) : k \in 0..(n - 1)},
                            !.post_selection = ps]
        /\ request \in Requests(n)
    /\ last = NoLast
    /\ carried = NoCarried
    /\ tk_circuit = TketCircuit
    /\ from_tk_idle
    /\ normalize_idle
    /\ algebra_idle
    /\ pc = "call"

\* tk_circ.rename_units(renaming), lines 57-67
rename_units_call ==
    /\ pc = "call"
    /\ request.op = "rename_units"
    /\ tk_circ' = rename_units(tk_circ, request.renaming)
    /\ last' = [last EXCEPT !.tk_circ = tk_circ]
    /\ pc' = "called"
    /\ UNCHANGED <<circuit, layers, qubits, bits, carried, request,
                   from_tk_vars, normalize_vars, algebra_vars>>

\* swap(i, j, unit_factory=Bit), lines 136-142
swap_call ==
    /\ pc = "call"
    /\ request.op = "swap"
    /\ tk_circ' = swap(tk_circ, request.i, request.j, "Bit")
    /\ last' = [last EXCEPT !.tk_circ = tk_circ]
    /\ pc' = "called"
    /\ UNCHANGED <<circuit, layers, qubits, bits, carried, request,
                   from_tk_vars, normalize_vars, algebra_vars>>

rename_next == rename_units_call \/ swap_call

SpecRename == InitRename /\ [][rename_next]_vars

---------------------------------------------------------------------------
\* normalize (circuit.py lines 139-188) as a generator: each action runs it
\* to its next yield.

\* The diagrams given to normalize: up to MaxBoxes boxes, zero-width ones
\* of several values among them, on at most MaxWidth wires.
NormalizeAlphabet == {Scalar(0), Scalar(2), Scalar(3), Ket(<<>>), Ket(<<1>>), X}

Placements(w) ==
    {bo \in NormalizeAlphabet \X (0..w) :
        /\ bo[2] + Len(bo[1].dom) <= w
        /\ w - Len(bo[1].dom) + Len(bo[1].cod) <= MaxWidth}

RECURSIVE DiagramsFrom(_, _)
DiagramsFrom(w, d) ==
    LET stop == [boxes |-> <<>>, offsets |-> <<>>, cod |-> w]
    IN  IF d = 0 THEN {stop}
        ELSE {stop} \cup
             UNION {{[boxes |-> <<bo[1]>> \o r.boxes,
                      offsets |-> <<bo[2]>> \o r.offsets,
                      cod |-> r.cod] :
                        r \in DiagramsFrom(
                                w - Len(bo[1].dom) + Len(bo[1].cod), d - 1)} :
                    bo \in Placements(w)}

Diagrams ==
    UNION {{Circuit(PRO(w), PRO(r.cod), r.boxes, r.offsets) :
                r \in DiagramsFrom(w, MaxBoxes)} : w \in 0..MaxDom}

InitNormalize ==
    /\ circuit = Id(<<>>)
    /\ to_tk_idle
    /\ tk_circuit = TketCircuit
    /\ from_tk_idle
    /\ receiver \in Diagrams
    /\ diagram = receiver
    /\ scalar = 1
    /\ yielded = <<>>
    /\ migrate_idle
    /\ algebra_idle
    /\ pc = "scalars"

\* lines 173-178: an iteration that finds a scalar and yields
normalize_yield ==
    /\ pc = "scalars"
    /\ LET r == remove_scalars(diagram)
       IN  /\ r.found
           /\ diagram' = r.diagram
           /\ scalar' = scalar * r.number
           /\ yielded' = Append(yielded, <<r.diagram, scalar * r.number>>)
    /\ UNCHANGED <<to_tk_vars, from_tk_vars, receiver, migrate_vars,
                   algebra_vars, pc>>

\* lines 173-176: the iteration that finds none and leaves the loop
normalize_break ==
    /\ pc = "scalars"
    /\ LET r == remove_scalars(diagram)
       IN  /\ ~r.found
           /\ diagram' = r.diagram
    /\ pc' = "kets"
    /\ UNCHANGED <<to_tk_vars, from_tk_vars, receiver, scalar, yielded,
                   migrate_vars, algebra_vars>>

\* lines 181-182
normalize_foliation ==
    /\ pc = "kets"
    /\ slices' = foliation(diagram)
    /\ _diagram' = flatten_from_1(foliation(diagram))
    /\ position' = 0
    /\ pc' = "migrate"
    /\ UNCHANGED <<to_tk_vars, from_tk_vars, receiver, diagram, scalar,
                   yielded, failure, algebra_vars>>

\* lines 183-184: the loop is entered and tests isinstance(box, Ket);
\* `box` is no name of normalize nor of the module, so the test raises
\* NameError before either branch is taken.
normalize_test ==
    /\ pc = "migrate"
    /\ position < Len(_diagram.boxes)
    /\ failure' = "NameError"
    /\ pc' = "raised"
    /\ UNCHANGED <<to_tk_vars, from_tk_vars, receiver, diagram, scalar,
                   yielded, slices, _diagram, position, algebra_vars>>

\* line 183: the loop is not entered and the generator ends
normalize_stop ==
    /\ pc = "migrate"
    /\ position >= Len(_diagram.boxes)
    /\ pc' = "stopped"
    /\ UNCHANGED <<to_tk_vars, from_tk_vars, normalize_vars, algebra_vars>>

normalize_next ==
    \/ normalize_yield
    \/ normalize_break
    \/ normalize_foliation
    \/ normalize_test
    \/ normalize_stop

SpecNormalize == InitNormalize /\ [][normalize_next]_vars

\* normalize on diagrams with boxes of two wires, which a Ket can sit
\* between.
MigrateAlphabet == {Scalar(2), Ket(<<1>>), Ket(<<0, 1>>), X, CX}

PlacementsOf(alphabet, w) ==
    {bo \in alphabet \X (0..w) :
        /\ bo[2] + Len(bo[1].dom) <= w
        /\ w - Len(bo[1].dom) + Len(bo[1].cod) <= MaxWidth}

RECURSIVE DiagramsOf(_, _, _)
DiagramsOf(alphabet, w, d) ==
    LET stop == [boxes |-> <<>>, offsets |-> <<>>, cod |-> w]
    IN  IF d = 0 THEN {stop}
        ELSE {stop} \cup
             UNION {{[boxes |-> <<bo[1]>> \o r.boxes,
                      offsets |-> <<bo[2]>> \o r.offsets,
                      cod |-> r.cod] :
                        r \in DiagramsOf(alphabet,
                                w - Len(bo[1].dom) + Len(bo[1].cod), d - 1)} :
                    bo \in PlacementsOf(alphabet, w)}

MigrateDiagrams ==
    UNION {{Circuit(PRO(w), PRO(r.cod), r.boxes, r.offsets) :
                r \in DiagramsOf(MigrateAlphabet, w, MaxBoxes)} :
            w \in 0..MaxDom}

InitMigrate ==
    /\ circuit = Id(<<>>)
    /\ to_tk_idle
    /\ tk_circuit = TketCircuit
    /\ from_tk_idle
    /\ receiver \in MigrateDiagrams
    /\ diagram = receiver
    /\ scalar = 1
    /\ yielded = <<>>
    /\ migrate_idle
    /\ algebra_idle
    /\ pc = "scalars"

SpecMigrate == InitMigrate /\ [][normalize_next]_vars

\* move_ket on its own, called as at line 185 on any diagram with a Ket
\* at a position i >= 1.
MoveKetInputs ==
    {di \in (UNION {{Circuit(PRO(w), PRO(r.cod), r.boxes, r.offsets) :
                        r \in DiagramsOf(MigrateAlphabet \ {Scalar(2)}, w,
                                         MaxBoxes)} :
                    w \in 0..MaxWidth}) \X (1..(MaxBoxes - 1)) :
        /\ di[2] < Len(di[1].boxes)
        /\ di[1].boxes[di[2] + 1].cls = "Ket"}

InitMoveKet ==
    /\ circuit = Id(<<>>)
    /\ to_tk_idle
    /\ tk_circuit = TketCircuit
    /\ from_tk_idle
    /\ \E di \in MoveKetInputs :
        /\ receiver = di[1]
        /\ _diagram = di[1]
        /\ position = di[2]
    /\ diagram = receiver
    /\ scalar = 1
    /\ yielded = <<>>
    /\ slices = foliation(Circuit(PRO(0), PRO(0), <<>>, <<>>))
    /\ failure = "none"
    /\ algebra_idle
    /\ pc = "move_ket"

\* line 185: _diagram, i = move_ket(_diagram, i)
move_ket_call ==
    /\ pc = "move_ket"
    /\ LET r == move_ket(_diagram, position)
       IN  /\ _diagram' = r.diagram
           /\ position' = r.i
           /\ failure' = r.raised
           /\ pc' = IF r.raised = "none" THEN "moved" ELSE "raised"
    /\ UNCHANGED <<to_tk_vars, from_tk_vars, receiver, diagram, scalar,
                   yielded, slices, algebra_vars>>

SpecMoveKet == InitMoveKet /\ [][move_ket_call]_vars

---------------------------------------------------------------------------
\* The tensor of three boxes in either grouping, and the repeated dagger
\* of one box.

Bitstrings == UNION {[1..k -> {0, 1}] : k \in 0..MaxBits}
Phases == (-MaxPhase)..MaxPhase

Kets == {Ket(b) : b \in Bitstrings}
Bras == {Bra(b) : b \in Bitstrings}
FixedGates == {SWAP, CX, H, S, T, X, Y, Z}

\* The family of boxes: the fixed gates in both orientations they can
\* take, the rotations, the basis states and effects, and scalars.
BoxFamily ==
    FixedGates
    \cup {[g EXCEPT !.dagger = "True"] : g \in {S, T, Y}}
    \cup {Rz(p) : p \in Phases} \cup {Rx(p) : p \in Phases}
    \cup Kets \cup Bras \cup {Scalar(2), Scalar(3)}

TensorOperands == Kets \cup Bras \cup {X, Rz(1)}

InitTensor ==
    /\ circuit = Id(<<>>)
    /\ to_tk_idle
    /\ tk_circuit = TketCircuit
    /\ from_tk_idle
    /\ normalize_idle
    /\ operands \in TensorOperands \X TensorOperands \X TensorOperands
    /\ grouping \in {"left", "right"}
    /\ value = NoBox
    /\ applied = 0
    /\ pc = "tensor"

\* the next @ of (x @ y) @ z or of x @ (y @ z)
tensor_step ==
    /\ pc = "tensor"
    /\ applied < 2
    /\ value' =
        IF grouping = "left"
        THEN IF applied = 0 THEN tensor(operands[1], operands[2])
             ELSE tensor(value, operands[3])
        ELSE IF applied = 0 THEN tensor(operands[2], operands[3])
             ELSE tensor(operands[1], value)
    /\ applied' = applied + 1
    /\ UNCHANGED <<to_tk_vars, from_tk_vars, normalize_vars, operands, grouping, pc>>

SpecTensor == InitTensor /\ [][tensor_step]_vars

InitDagger ==
    /\ circuit = Id(<<>>)
    /\ to_tk_idle
    /\ tk_circuit = TketCircuit
    /\ from_tk_idle
    /\ normalize_idle
    /\ operands \in {<<b>> : b \in BoxFamily}
    /\ grouping = "none"
    /\ value = operands[1]
    /\ applied = 0
    /\ pc = "dagger"

\* one more .dagger()
dagger_step ==
    /\ pc = "dagger"
    /\ applied < MaxDaggers
    /\ value' = dagger(value)
    /\ applied' = applied + 1
    /\ UNCHANGED <<to_tk_vars, from_tk_vars, normalize_vars, operands, grouping, pc>>

SpecDagger == InitDagger /\ [][dagger_step]_vars

---------------------------------------------------------------------------
\* Claims on the translations.

\* A circuit on qubit wires built from the named gates and the rotations.
GatesOnly(c) ==
    /\ c.dom = Rep(Len(c.dom), qubit)
    /\ c.dom # <<>>
    /\ \A i \in DOMAIN c.layers : c.layers[i].box \in {Qubits(X), Qubits(CX), Qubits(Rx(1)), CRz(1)}

\* C1: for every circuit of named gates and rotations, from_tk(to_tk(c))
\* is returned and is c: the same domain and codomain, the same gates on
\* the same wires in the same order.
C1_RoundTrip ==
    GatesOnly(circuit) =>
        /\ pc \notin {"raised", "failed"}
        /\ pc = "done" =>
            /\ logical.dom = circuit.dom
            /\ Cod(logical) = Cod(circuit)
            /\ logical.layers = circuit.layers

\* The order of the wires after the swaps of `ls`, from the order w.
RECURSIVE Wires(_, _)
Wires(ls, w) ==
    IF ls = <<>> THEN w
    ELSE LET k == Len(Head(ls).left) + 1
         IN  Wires(Tail(ls), [w EXCEPT ![k] = w[k + 1], ![k + 1] = w[k]])

\* C2: every instruction, wherever its wires lie, is placed: the box sits
\* on contiguous wires that hold the instruction's qubits in argument
\* order, and the swaps after the box restore the order before it.
C2_Adjacent ==
    (step.gate.name \in {"X", "CX", "Rx"}) =>
        /\ raised = "none"
        /\ LET n == n_qubits(tk_circuit) + n_bits(tk_circuit)
               w0 == [k \in 1..n |-> k - 1]
               w == Wires(step.swaps, w0)
           IN  /\ \A j \in DOMAIN step.gate.qubits :
                    w[step.offset + j] = step.gate.qubits[j].idx
               /\ Wires(Reverse(step.swaps), w) = w0

\* C3: a Measure whose bit is constrained lowers to the Bra of the
\* constrained value, any other Measure to a measurement box; neither
\* fails.
C3_Measure ==
    step.gate.name = "Measure" =>
        /\ raised = "none"
        /\ LET i == step.gate.bits[1].idx
           IN  step.box = IF i \in DOMAIN tk_circuit.post_selection
                          THEN Qubits(Bra(<<tk_circuit.post_selection[i]>>))
                          ELSE Measure

\* The layers from_tk builds for the commands cs, from the circuit c on.
RECURSIVE CommandLayers(_, _, _)
CommandLayers(c, cs, tk) ==
    IF cs = <<>> THEN c.layers
    ELSE CommandLayers(from_tk_body(c, Head(cs), tk).circuit, Tail(cs), tk)

\* C4: when the scalar of the pytket circuit is not zero, from_tk returns
\* the layers of its commands followed by one scalar box of that value.
C4_Scalar ==
    (pc \in {"done", "failed"} /\ commands = <<>> /\ step.box # NoBox
        /\ tk_circuit.scalar # 0) =>
        /\ pc = "done"
        /\ logical.layers =
            CommandLayers(Id(logical.dom), tk_circuit.commands, tk_circuit)
            \o <<Layer(Cod(logical), Scalar(tk_circuit.scalar), <<>>)>>

\* C5: a circuit with a box whose name is no pytket instruction is never
\* translated: visiting the box raises NotImplementedError, also when the
\* name is that of another attribute of the circuit object.
C5_Unsupported ==
    /\ (\E i \in DOMAIN circuit.layers :
            circuit.layers[i].box \in {Unsupported, Coincides})
        => pc \notin {"returned", "from_tk", "commands", "done", "failed"}
    /\ (pc \in {"loop", "raised"} /\ last.layer.box \in {Unsupported, Coincides})
        => tk_circ.raised = "NotImplementedError"

\* C9: the positions of the qubit wires are pairwise distinct, and a Ket
\* of width n adds n positions to the mapping.
C9_Distinct ==
    tk_circ.raised = "none" =>
        /\ \A i, j \in DOMAIN qubits : i # j => qubits[i] # qubits[j]
        /\ last.layer.box.cls = "Ket" =>
                Len(qubits) = Len(last.qubits) + Len(last.layer.box.cod)

\* C10: a Discard appends no command and removes exactly its wire from
\* the mapping: the entries to its left and right are kept, in order.
C10_Discard ==
    (tk_circ.raised = "none" /\ last.layer.box.cls = "Discard") =>
        LET l == Count(last.layer.left, qubit)
        IN  /\ tk_circ.commands = last.tk_circ.commands
            /\ Len(qubits) = Len(last.qubits) - 1
            /\ qubits = SubSeq(last.qubits, 1, l)
                        \o SubSeq(last.qubits, l + 2, Len(last.qubits))

\* C11: every wire of a Measure or Bra box emits exactly one Measure
\* instruction, from the unit that carries the wire's data onto a bit that
\* no earlier bit uses; when the translation ends post_selection has
\* exactly one entry per wire of an effect box, from that wire's bit to the
\* value of the bitstring, and none for a bit a plain measurement wrote.
C11_Measure ==
    /\ (pc \in {"loop", "raised"} /\ last.layer.box.cls \in {"Measure", "Bra"}) =>
        LET box == last.layer.box
            l == Count(last.layer.left, qubit)
            before == Len(last.tk_circ.commands)
        IN  /\ tk_circ.raised = "none"
            /\ Len(tk_circ.commands) = before + Len(box.dom)
            /\ \A j \in 1..Len(box.dom) :
                LET cmd == tk_circ.commands[before + j]
                IN  /\ cmd.name = "Measure"
                    /\ cmd.qubits = <<last.carried.qubits[l + j]>>
                    /\ Len(cmd.bits) = 1
                    /\ cmd.bits[1] \notin last.tk_circ.bits
                    /\ \A k \in 1..(j - 1) :
                        tk_circ.commands[before + k].bits # cmd.bits
    /\ pc = "returned" =>
        /\ \A k \in DOMAIN carried.effects :
            /\ carried.effects[k].unit.idx \in DOMAIN tk_circ.post_selection
            /\ tk_circ.post_selection[carried.effects[k].unit.idx]
                    = carried.effects[k].value
        /\ Cardinality(DOMAIN tk_circ.post_selection) = Len(carried.effects)
        /\ \A u \in carried.measured : u.idx \notin DOMAIN tk_circ.post_selection

\* the commands with the units a and b exchanged
Exchanged(cmds, a, b) ==
    LET Other(u) == IF u = a THEN b ELSE IF u = b THEN a ELSE u
    IN  [i \in DOMAIN cmds |->
            [cmds[i] EXCEPT
                !.qubits = [j \in DOMAIN cmds[i].qubits |->
                                Other(cmds[i].qubits[j])],
                !.bits = [j \in DOMAIN cmds[i].bits |->
                                Other(cmds[i].bits[j])]]]

\* C12: a swap box of two qubits (or two bits) exchanges the units that
\* carry its two wires and emits nothing: afterwards the mapping sends each
\* of the two wires to the unit that has the other wire's data, and no
\* other wire's unit changes; a swap box of a qubit and a bit changes
\* neither the pytket circuit nor the mappings.
C12_Swap ==
    /\ (pc \in {"loop", "raised"} /\ last.layer.box = Swap(qubit, qubit)) =>
        LET k == Count(last.layer.left, qubit) + 1
            a == last.carried.qubits[k]
            b == last.carried.qubits[k + 1]
        IN  /\ tk_circ.raised = "none"
            /\ tk_circ.commands = Exchanged(last.tk_circ.commands, a, b)
            /\ Qubit(qubits[k]) = carried.qubits[k]
            /\ Qubit(qubits[k + 1]) = carried.qubits[k + 1]
            /\ \A m \in DOMAIN carried.qubits :
                m \notin {k, k + 1} => carried.qubits[m] = last.carried.qubits[m]
            /\ qubits = last.qubits /\ bits = last.bits
            /\ carried.bits = last.carried.bits
    /\ (pc \in {"loop", "raised"} /\ last.layer.box = Swap(bit, bit)) =>
        LET k == Count(last.layer.left, bit) + 1
            a == last.carried.bits[k]
            b == last.carried.bits[k + 1]
        IN  /\ tk_circ.raised = "none"
            /\ tk_circ.commands = Exchanged(last.tk_circ.commands, a, b)
            /\ Bit(bits[k]) = carried.bits[k]
            /\ Bit(bits[k + 1]) = carried.bits[k + 1]
            /\ \A m \in DOMAIN carried.bits :
                m \notin {k, k + 1} => carried.bits[m] = last.carried.bits[m]
            /\ qubits = last.qubits /\ bits = last.bits
            /\ carried.qubits = last.carried.qubits
    /\ (pc \in {"loop", "raised"}
            /\ last.layer.box \in {Swap(qubit, bit), Swap(bit, qubit)}) =>
        /\ tk_circ = last.tk_circ
        /\ qubits = last.qubits
        /\ bits = last.bits

---------------------------------------------------------------------------
\* Claims on normalize, tensor and dagger.

\* the positions of the zero-width boxes of a diagram
ScalarBoxes(d) ==
    {i \in DOMAIN d.boxes : d.boxes[i].dom = <<>> /\ d.boxes[i].cod = <<>>}

\* the positions of its j earliest zero-width boxes
Earliest(d, j) ==
    {i \in ScalarBoxes(d) : Cardinality({h \in ScalarBoxes(d) : h < i}) < j}

\* what is left of a list from position i on without the positions `drop`
RECURSIVE Keep(_, _, _)
Keep(s, drop, i) ==
    IF i > Len(s) THEN <<>>
    ELSE (IF i \in drop THEN <<>> ELSE <<s[i]>>) \o Keep(s, drop, i + 1)

RECURSIVE Product(_)
Product(s) == IF s = <<>> THEN 1 ELSE Head(s) * Product(Tail(s))

\* the values of the j earliest zero-width boxes, in order
Removed(d, j) ==
    Keep([i \in DOMAIN d.boxes |-> d.boxes[i].array],
         (DOMAIN d.boxes) \ Earliest(d, j), 1)

\* the diagram without its j earliest zero-width boxes
Remaining(d, j) ==
    Circuit(d.dom, d.cod, Keep(d.boxes, Earliest(d, j), 1),
            Keep(d.offsets, Earliest(d, j), 1))

\* C6: for a diagram with k zero-width scalar boxes phase 1 of normalize
\* yields exactly k times and then stops; the j-th yield is the diagram
\* without its j earliest scalar boxes, all other boxes in their original
\* order at their offsets, with the product of the first j removed values;
\* when all boxes are scalars the last yielded diagram is empty and the
\* last scalar is the product of all of them.
C6_ScalarExtraction ==
    pc \in {"scalars", "kets"} =>
        LET k == Cardinality(ScalarBoxes(receiver))
        IN  /\ Len(yielded) <= k
            /\ pc = "kets" => Len(yielded) = k
            /\ \A j \in DOMAIN yielded :
                /\ yielded[j][1] = Remaining(receiver, j)
                /\ yielded[j][2] = Product(Removed(receiver, j))
            /\ (pc = "kets" /\ k > 0 /\ k = Len(receiver.boxes)) =>
                /\ yielded[k][1].boxes = <<>>
                /\ yielded[k][2] =
                    Product([i \in DOMAIN receiver.boxes |->
                                receiver.boxes[i].array])

\* two different scalars around a gate have both been taken out
C6_Witness ==
    /\ pc = "kets"
    /\ receiver.boxes = <<Scalar(2), X, Scalar(3)>>
    /\ Len(yielded) = 2
    /\ yielded[1] = <<Circuit(PRO(1), PRO(1), <<X, Scalar(3)>>, <<0, 1>>), 2>>
    /\ yielded[2] = <<Circuit(PRO(1), PRO(1), <<X>>, <<0>>), 6>>

\* C7: Ket(x) @ Ket(y) is the one box Ket(x ++ y) and Bra(x) @ Bra(y) the
\* one box Bra(x ++ y), the empty bitstring included; three Kets (or Bras)
\* give Ket(x ++ y ++ z) in either grouping; a Ket tensored with anything
\* that is not a Ket, or a Bra with a non-Bra, leaves the boxes separate.
C7_Fusion ==
    pc = "tensor" =>
        LET x == operands[1]
            y == operands[2]
            z == operands[3]
            a == IF grouping = "left" THEN x ELSE y
            b == IF grouping = "left" THEN y ELSE z
        IN  /\ applied = 1 =>
                /\ (a.cls = "Ket" /\ b.cls = "Ket") =>
                        value = Ket(a.bitstring \o b.bitstring)
                /\ (a.cls = "Bra" /\ b.cls = "Bra") =>
                        value = Bra(a.bitstring \o b.bitstring)
                /\ (a.cls \in {"Ket", "Bra"} /\ b.cls # a.cls) =>
                        /\ value.cls = "Circuit"
                        /\ value.boxes = <<a, b>>
                        /\ value.offsets = <<0, Len(a.cod)>>
            /\ applied = 2 =>
                /\ (x.cls = "Ket" /\ y.cls = "Ket" /\ z.cls = "Ket") =>
                        value = Ket(x.bitstring \o y.bitstring \o z.bitstring)
                /\ (x.cls = "Bra" /\ y.cls = "Bra" /\ z.cls = "Bra") =>
                        value = Bra(x.bitstring \o y.bitstring \o z.bitstring)
                /\ (/\ grouping = "right"
                    /\ x.cls \in {"Ket", "Bra"}
                    /\ ~(y.cls = x.cls /\ z.cls = x.cls)) =>
                        /\ value.cls = "Circuit"
                        /\ Head(value.boxes) = x
                        /\ Len(value.boxes) >= 2

\* three non-empty Kets fused right to left
C7_Witness ==
    /\ pc = "tensor"
    /\ applied = 2
    /\ grouping = "right"
    /\ operands = <<Ket(<<0>>), Ket(<<1>>), Ket(<<1, 0>>)>>
    /\ value = Ket(<<0, 1, 1, 0>>)

\* C8: dagger is an involution on the boxes of the family; a self-inverse
\* box stays self-inverse and equal to itself after any number of daggers,
\* a forward gate becomes reversed and back, a rotation's phase is negated,
\* and the dagger of Ket(x) is Bra(x) and the other way round.
C8_DaggerInvolution ==
    pc = "dagger" =>
        LET b == operands[1]
        IN  /\ applied % 2 = 0 => value = b
            /\ (b.cls = "Gate" /\ b.dagger = "None") =>
                    value = b /\ value.dagger = "None"
            /\ applied % 2 = 1 =>
                /\ (b.cls = "Gate" /\ b.dagger = "False") =>
                        value = [b EXCEPT !.dagger = "True"]
                /\ (b.cls = "Gate" /\ b.dagger = "True") =>
                        value = [b EXCEPT !.dagger = "False"]
                /\ b.cls \in {"Rz", "Rx"} =>
                        value = [b EXCEPT !.phase = 0 - b.phase]
                /\ b.cls = "Ket" => value = Bra(b.bitstring)
                /\ b.cls = "Bra" => value = Ket(b.bitstring)

\* a self-inverse gate after three daggers
C8_Witness ==
    /\ pc = "dagger"
    /\ applied = 3
    /\ operands = <<CX>>
    /\ value = CX

---------------------------------------------------------------------------
\* Further claims on to_tk.

\* to_tk as a function: the loop of lines 157-182 over the layers ls from
\* the state s, stopped by the first exception.
RECURSIVE to_tk_run(_, _)
to_tk_run(s, ls) ==
    IF ls = <<>> \/ s.tk_circ.raised # "none" THEN s
    ELSE to_tk_run(to_tk_body(s, Head(ls)), Tail(ls))

to_tk(c) ==
    to_tk_run([tk_circ |-> TketCircuit, qubits |-> <<>>, bits |-> <<>>],
              to_tk_layers(c))

ZeroWidth(box) == box.dom = <<>> /\ box.cod = <<>>

\* the layers that hold a box of some width, in order
RECURSIVE WithoutZeroWidth(_)
WithoutZeroWidth(ls) ==
    IF ls = <<>> THEN <<>>
    ELSE (IF ZeroWidth(Head(ls).box) THEN <<>> ELSE <<Head(ls)>>)
         \o WithoutZeroWidth(Tail(ls))

\* the values of the zero-width boxes, in order
RECURSIVE ZeroWidthValues(_)
ZeroWidthValues(ls) ==
    IF ls = <<>> THEN <<>>
    ELSE (IF ZeroWidth(Head(ls).box) THEN <<Head(ls).box.array>> ELSE <<>>)
         \o ZeroWidthValues(Tail(ls))

\* C13: the scalar of the pytket circuit that to_tk returns is the product
\* of the values of the zero-width boxes of the circuit (1 when it has
\* none), and its commands are those of the circuit without its zero-width
\* boxes.
C13_Scalars ==
    pc = "returned" =>
        LET bare == to_tk([circuit EXCEPT !.layers = WithoutZeroWidth(@)])
        IN  /\ tk_circ.scalar = Product(ZeroWidthValues(circuit.layers))
            /\ bare.tk_circ.raised = "none"
            /\ tk_circ.commands = bare.tk_circ.commands

---------------------------------------------------------------------------
\* Claims on the second phase of normalize.

\* every Ket of the diagram has only Kets before it
KetsFirst(diag) ==
    \A p, q \in DOMAIN diag.boxes :
        (q < p /\ diag.boxes[p].cls = "Ket") => diag.boxes[q].cls = "Ket"

\* C14: phase 2 of normalize takes finitely many steps and then stops,
\* never with an exception, and when it has stopped every Ket is at the
\* input boundary of the diagram it works on.
C14_Terminates ==
    /\ pc # "raised"
    /\ failure = "none"
    /\ pc = "stopped" => KetsFirst(_diagram)

\* the Python position move_ket was called with
Called == IF pc = "moved" THEN position + 1 ELSE position

\* the Ket at Python position i and the box before it are on disjoint wires
Disjoint(diag, i) ==
    \/ diag.offsets[i + 1] >= diag.offsets[i] + Len(diag.boxes[i].cod)
    \/ diag.offsets[i + 1] <= diag.offsets[i]

\* each box of the diagram fits the width it is placed on, and the last
\* width is that of the codomain
RECURSIVE WellTypedFrom(_, _, _)
WellTypedFrom(diag, k, w) ==
    IF k > Len(diag.boxes) THEN w = Len(diag.cod)
    ELSE /\ diag.offsets[k] >= 0
         /\ diag.offsets[k] + Len(diag.boxes[k].dom) <= w
         /\ WellTypedFrom(diag, k + 1,
                w - Len(diag.boxes[k].dom) + Len(diag.boxes[k].cod))

WellTyped(diag) == WellTypedFrom(diag, 1, Len(diag.dom))

\* C15: when the Ket at position i and the box at i - 1 are on disjoint
\* wires, the step gives a diagram with the Ket at i - 1 and the box that
\* was at i - 1 at i, every other layer unchanged, and the position i - 1.
C15_Step ==
    (pc \in {"moved", "raised"} /\ Disjoint(receiver, Called)) =>
        /\ failure = "none"
        /\ position = Called - 1
        /\ Len(_diagram.boxes) = Len(receiver.boxes)
        /\ _diagram.boxes[Called] = receiver.boxes[Called + 1]
        /\ _diagram.boxes[Called + 1] = receiver.boxes[Called]
        /\ \A k \in DOMAIN receiver.boxes :
            k \notin {Called, Called + 1} =>
                /\ _diagram.boxes[k] = receiver.boxes[k]
                /\ _diagram.offsets[k] = receiver.offsets[k]
        /\ WellTyped(_diagram)

\* C16: when the interchange is illegal, the Ket's layer is replaced by the
\* Ket one wire to the left followed by a swap of two wires: the diagram
\* keeps its domain and codomain and stays well-typed, the Ket stays at
\* position i with its offset one less than before, and nothing fails.
C16_Replacement ==
    (pc \in {"moved", "raised"} /\ ~Disjoint(receiver, Called)) =>
        /\ failure = "none"
        /\ position = Called
        /\ _diagram.dom = receiver.dom
        /\ _diagram.cod = receiver.cod
        /\ WellTyped(_diagram)
        /\ Len(_diagram.boxes) = Len(receiver.boxes) + 1
        /\ _diagram.boxes[Called + 1] = receiver.boxes[Called + 1]
        /\ _diagram.offsets[Called + 1] = receiver.offsets[Called + 1] - 1
        /\ _diagram.boxes[Called + 2] = SWAP
        /\ _diagram.offsets[Called + 2] = receiver.offsets[Called + 1] - 1

---------------------------------------------------------------------------
\* Claim on the post-selection bookkeeping.

\* the constraint of the bit of index k: <<v>>, or <<>> when it has none
Constraint(tk, k) ==
    IF k \in DOMAIN tk.post_selection THEN <<tk.post_selection[k]>> ELSE <<>>

\* C17: rename_units moves the constraint of every renamed bit to the new
\* index and leaves the constraint of every bit it does not rename as it
\* was; a swap of the bits i and j exchanges their constraints and changes
\* no other bit's constraint, also that of a constrained bit 0.
C17_Bookkeeping ==
    /\ (pc = "called" /\ request.op = "rename_units") =>
        /\ tk_circ.raised = "none"
        /\ \A b \in last.tk_circ.bits :
            IF b \in DOMAIN request.renaming
            THEN Constraint(tk_circ, request.renaming[b].idx)
                    = Constraint(last.tk_circ, b.idx)
            ELSE Constraint(tk_circ, b.idx) = Constraint(last.tk_circ, b.idx)
    /\ (pc = "called" /\ request.op = "swap") =>
        /\ tk_circ.raised = "none"
        /\ tk_circ.bits = last.tk_circ.bits
        /\ Constraint(tk_circ, request.i) = Constraint(last.tk_circ, request.j)
        /\ Constraint(tk_circ, request.j) = Constraint(last.tk_circ, request.i)
        /\ \A b \in last.tk_circ.bits :
            b.idx \notin {request.i, request.j} =>
                Constraint(tk_circ, b.idx) = Constraint(last.tk_circ, b.idx)

===========================================================================
